---- MODULE Spec2Model ----
(***************************************************************************)
(* Model of src/src/petclaw/evolve/sharpclaw.py: the time-integrator        *)
(* dispatcher SharpPetClawSolver1D.step, the stage evaluator dq and the     *)
(* homogeneous increment computation dqhyp1.                                *)
(*                                                                          *)
(* Two specifications share the variables:                                  *)
(*   Spec      one stage evaluation: dq -> qbc -> dqhyp1 (reconstruction    *)
(*             dispatch, Riemann solves, CFL maxima, increment) -> CFL      *)
(*             test -> source term.  Arrays keep numpy's 0-based indices    *)
(*             and numpy's slice and broadcasting rules.                    *)
(*   SpecStep  one call of step: the sequence of dq calls and the updates   *)
(*             of grid.q, grid.t, grid.rk_stages[0] between them.           *)
(*                                                                          *)
(* Numbers are exact: floating-point values are modelled by integers, and   *)
(* the inputs are chosen so that every division of the code is exact.       *)
(* The systems are scalar (meqn = 1, q[i, 0] is written q[i]).              *)
(***************************************************************************)
EXTENDS Integers, Sequences, FiniteSets

VARIABLES
    grid,     \* the grid: q, t, mbc, capa, d, boundary kind, rk_stages[0]
    solver,   \* the solver's configuration: dt, cfl_max, src_term, lim_type, ...
    cfl,      \* self.cfl
    pc,       \* position in dq / dqhyp1 / step
    loc,      \* the local variables of the running routine
    ret,      \* what the routine returned (None until it returns)
    err,      \* the exception that ended the routine ("" when none)
    trace     \* the collaborators invoked so far, in order

vars == <<grid, solver, cfl, pc, loc, ret, err, trace>>

\* ---------------------------------------------------------------- bounds
MaxMbc == 3
MaxQ == 1

\* ------------------------------------------------------------ Python values
None == "None"
\* the rejection sentinel: dq returns False
Reject == "False"

Max2(a, b) == IF a >= b THEN a ELSE b
Min2(a, b) == IF a <= b THEN a ELSE b

\* ------------------------------------------------------------ numpy arrays
\* A 1-d array is a function on 0..n-1.
ALen(a) == Cardinality(DOMAIN a)

\* Python's normalisation of one slice bound k for a sequence of length n:
\* a negative bound counts from the end, and the result is clipped to [0, n].
SliceBound(n, k) == IF k < 0 THEN Max2(k + n, 0) ELSE Min2(k, n)

\* a[lo:hi]
Slice(a, lo, hi) ==
    LET n  == ALen(a)
        st == SliceBound(n, lo)
        en == SliceBound(n, hi)
        m  == Max2(en - st, 0)
    IN [k \in 0..(m - 1) |-> a[st + k]]

\* The length of the result of an elementwise operation on operands of
\* lengths la and lb under numpy broadcasting; -1 when the shapes do not
\* broadcast (ValueError).
BLen(la, lb) ==
    IF la = -1 \/ lb = -1 THEN -1
    ELSE IF la = lb THEN la
    ELSE IF la = 1 THEN lb
    ELSE IF lb = 1 THEN la
    ELSE -1

\* Element k of an operand stretched by broadcasting.
At(a, k) == IF ALen(a) = 1 THEN a[0] ELSE a[k]

RECURSIVE MaxOf(_)
\* Python's max over a non-empty set of numbers.
MaxOf(S) ==
    LET x == CHOOSE y \in S : TRUE
    IN IF S = {x} THEN x ELSE Max2(x, MaxOf(S \ {x}))

RECURSIVE SumTo(_, _)
\* a[0] + ... + a[n-1]
SumTo(a, n) == IF n = 0 THEN 0 ELSE a[n - 1] + SumTo(a, n - 1)

\* ---------------------------------------------------------- configuration
\* Scalar systems: grid.meqn
meqn == 1
\* Numbers of physical cells of the local grid portion.
PhysSizes == {3, 4}
QVals == (-1)..MaxQ
MbcVals == 0..MaxMbc
BcKinds == {"periodic", "extrap"}
\* Numbers of wave families the Riemann evaluator returns (self.mwaves).
WaveCounts == {1, 2}
LimTypes == {0, 1, 2, 3}
CharDecomps == {0, 1, 2, 3}
CflMaxVals == {4, 100}
\* self.cfl as an earlier stage or step left it
StaleCflVals == {50}

\* ------------------------------------------------- external collaborators
\* self.qbc(grid.lqVec, grid): the local field with mbc ghost cells filled on
\* each side, periodic copies or zero-order extrapolation.
qbc(g) ==
    LET np == ALen(g.q)
        n  == np + 2 * g.mbc
    IN [i \in 0..(n - 1) |->
          IF g.bc = "periodic" THEN g.q[(i - g.mbc) % np]
          ELSE g.q[Max2(0, Min2(np - 1, i - g.mbc))]]

\* grid.capa: a capacity per local cell.
capaArr(n) == [i \in 0..(n - 1) |-> 1 + (i % 2)]

\* The flux of the Riemann evaluator's equation: f(q) = q^2.
Flux(x) == x * x

\* One Riemann solve between the states a (left) and b (right): the speeds of
\* the mw wave families, the jump the waves carry, and the left- and
\* right-going fluctuations.  With one family the speed is the Roe speed
\* a + b; with two families they are the characteristic speeds 2a and 2b and
\* each wave carries half the jump.  amdq + apdq = f(b) - f(a) in both.
Rp1(a, b, mw) ==
    IF mw = 1
    THEN [s    |-> <<a + b>>,
          wave |-> b - a,
          amdq |-> Min2(a + b, 0) * (b - a),
          apdq |-> Max2(a + b, 0) * (b - a)]
    ELSE [s    |-> <<2 * a, 2 * b>>,
          wave |-> b - a,
          amdq |-> (Min2(a, 0) + Min2(b, 0)) * (b - a),
          apdq |-> (Max2(a, 0) + Max2(b, 0)) * (b - a)]

\* self.rp(q_l, q_r, aux_l, aux_r, aux_global) on arrays of equal length.
rp(q_l, q_r, mw) ==
    LET n == ALen(q_l)
    IN [s    |-> [j \in 0..(n - 1) |-> Rp1(q_l[j], q_r[j], mw).s],
        wave |-> [j \in 0..(n - 1) |-> Rp1(q_l[j], q_r[j], mw).wave],
        amdq |-> [j \in 0..(n - 1) |-> Rp1(q_l[j], q_r[j], mw).amdq],
        apdq |-> [j \in 0..(n - 1) |-> Rp1(q_l[j], q_r[j], mw).apdq]]

\* recon.weno5(q): left- and right-edge states of every cell, from a centred
\* stencil; the end cells, which have no stencil, keep the cell average.
weno5(q) ==
    LET n == ALen(q)
        slope(i) == IF i = 0 \/ i = n - 1 THEN 0 ELSE q[i + 1] - q[i - 1]
    IN [ql |-> [i \in 0..(n - 1) |-> q[i] - slope(i)],
        qr |-> [i \in 0..(n - 1) |-> q[i] + slope(i)]]

\* recon.weno5_wave(q, wave, s): edge states rebuilt from the jumps of the
\* preliminary Riemann solve; wave[j] is the jump at the interface j | j+1.
weno5_wave(q, wave) ==
    LET n == ALen(q)
    IN [ql |-> [i \in 0..(n - 1) |-> IF i = 0 THEN q[i] ELSE q[i] - wave[i - 1]],
        qr |-> [i \in 0..(n - 1) |-> IF i = n - 1 THEN q[i] ELSE q[i] + wave[i]]]

\* self.src(solution, t, dt): a constant forcing, integrated over dt.
src(np, dt) == [i \in 0..(np - 1) |-> dt]

\* ------------------------------------------------------------------ dqhyp1
\* dtdx = np.zeros(local_n); dt / (d[0] * capa) with a capacity array,
\* dtdx += dt / d[0] without.
Dtdx(n, hasCapa, dt, d0) ==
    [i \in 0..(n - 1) |->
        IF hasCapa THEN dt \div (d0 * capaArr(n)[i]) ELSE dt \div d0]

\* Loop limits for the local portion of the grid.
LL(mbc) == mbc - 1
UL(local_n, mbc) == local_n - mbc + 1

\* s[:, mw]: the speeds of wave family mw (0-based) at every interface.
Family(s, mw) == [j \in DOMAIN s |-> s[j][mw + 1]]

\* max(sign * A * B) for two sliced operands: ValueError when the shapes do
\* not broadcast, and when the product is empty (max() of an empty sequence).
MaxProd(A, B, sign) ==
    LET L == BLen(ALen(A), ALen(B))
    IN IF L < 1 THEN [err |-> "ValueError", val |-> 0]
       ELSE [err |-> "",
             val |-> MaxOf({sign * At(A, k) * At(B, k) : k \in 0..(L - 1)})]

\* smax1 = max(dtdx[LL:UL] * s[LL-1:UL-1, mw])
Smax1(dtdx, sm, ll, ul) == MaxProd(Slice(dtdx, ll, ul), Slice(sm, ll - 1, ul - 1), 1)

\* smax2 = max(-dtdx[LL-1:UL-1] * s[LL-1:UL-1, mw])
Smax2(dtdx, sm, ll, ul) ==
    MaxProd(Slice(dtdx, ll - 1, ul - 1), Slice(sm, ll - 1, ul - 1), -1)

RECURSIVE CflLoop(_, _, _, _, _, _, _)
\* for mw in xrange(mwaves): ... self.cfl = max(self.cfl, smax1, smax2),
\* from family mw on, with acc the value of self.cfl so far.  nw is the
\* number of families the Riemann evaluator returned.
CflLoop(dtdx, s, nw, mwaves, ll, ul, st) ==
    IF st.mw = mwaves THEN [err |-> "", cfl |-> st.acc]
    ELSE IF st.mw >= nw THEN [err |-> "IndexError", cfl |-> st.acc]
    ELSE LET sm == Family(s, st.mw)
             s1 == Smax1(dtdx, sm, ll, ul)
             s2 == Smax2(dtdx, sm, ll, ul)
         IN IF s1.err # "" THEN [err |-> s1.err, cfl |-> st.acc]
            ELSE IF s2.err # "" THEN [err |-> s2.err, cfl |-> st.acc]
            ELSE CflLoop(dtdx, s, nw, mwaves, ll, ul,
                         [mw |-> st.mw + 1,
                          acc |-> Max2(st.acc, Max2(s1.val, s2.val))])

\* mwaves = meqn; self.cfl = 0.0; the loop over the wave families.
CflMonitor(dtdx, s, nw, ll, ul) ==
    CflLoop(dtdx, s, nw, meqn, ll, ul, [mw |-> 0, acc |-> 0])

\* IncrementRhs without the right-going total fluctuation apdq2.
IncrementRhs_NoApdq2(l, ll, ul) ==
    LET D  == Slice(l.dtdx, ll, ul)
        A1 == Slice(l.amdq, ll, ul)
        A2 == Slice(l.apdq, ll - 1, ul - 1)
        A4 == Slice(l.amdq2, ll, ul)
        L  == BLen(ALen(D), BLen(BLen(ALen(A1), ALen(A2)), ALen(A4)))
    IN [len |-> L,
        val |-> [k \in 0..(L - 1) |->
                   (0 - At(D, k)) * (At(A1, k) + At(A2, k) + At(A4, k))]]

\* The right-hand side of
\*   dq[LL:UL] = -dtdx[LL:UL]*(amdq[LL:UL] + apdq[LL-1:UL-1]
\*                             + apdq2[LL:UL] + amdq2[LL:UL])
\* len is the broadcast length (-1: the shapes do not broadcast).
IncrementRhs(l, ll, ul) ==
    LET D  == Slice(l.dtdx, ll, ul)
        A1 == Slice(l.amdq, ll, ul)
        A2 == Slice(l.apdq, ll - 1, ul - 1)
        A3 == Slice(l.apdq2, ll, ul)
        A4 == Slice(l.amdq2, ll, ul)
        L  == BLen(ALen(D),
                   BLen(BLen(BLen(ALen(A1), ALen(A2)), ALen(A3)), ALen(A4)))
    IN [len |-> L,
        val |-> [k \in 0..(L - 1) |->
                   (0 - At(D, k)) * (At(A1, k) + At(A2, k) + At(A3, k) + At(A4, k))]]

\* dq = np.empty(q.shape) ... dq[LL:UL] = rhs ... return dq[LL+1:UL-1].
\* The assignment needs rhs to have the length of the target slice, or
\* length 1.  idx are the indices of dq the returned array holds, written
\* the indices the assignment filled.
ComputeDq(l, ll, ul) ==
    LET n   == ALen(l.q)
        st  == SliceBound(n, ll)
        en  == SliceBound(n, ul)
        T   == Max2(en - st, 0)
        rhs == IncrementRhs(l, ll, ul)
        rst == SliceBound(n, ll + 1)
        ren == SliceBound(n, ul - 1)
        m   == Max2(ren - rst, 0)
    IN IF rhs.len = -1 \/ (rhs.len # T /\ rhs.len # 1)
       THEN [err |-> "ValueError", val |-> <<>>, idx |-> <<>>, written |-> {}]
       ELSE [err     |-> "",
             val     |-> [k \in 0..(m - 1) |->
                            IF rst + k >= st /\ rst + k < en
                            THEN At(rhs.val, rst + k - st) ELSE 0],
             idx     |-> [k \in 0..(m - 1) |-> rst + k],
             written |-> st..(en - 1)]

\* --------------------------------------------------------------------- dq
\* DqReturn with the CFL test as a strict inequality.
DqReturn_Strict(deltaq, c, s, srcinc) ==
    IF c > s.cfl_max THEN [ret |-> [kind |-> Reject], calls |-> <<>>]
    ELSE IF s.src_term = 1
         THEN [ret   |-> [kind |-> "array",
                          val  |-> [k \in DOMAIN deltaq |-> deltaq[k] + srcinc[k]]],
               calls |-> <<"src">>]
         ELSE [ret |-> [kind |-> "array", val |-> deltaq], calls |-> <<>>]

\* if self.cfl >= self.cfl_max: return False
\* if self.src_term == 1: deltaq += self.src(...)
\* return deltaq
\* ret is the value returned, calls the collaborators invoked on the way.
DqReturn(deltaq, c, s, srcinc) ==
    IF c >= s.cfl_max THEN [ret |-> [kind |-> Reject], calls |-> <<>>]
    ELSE IF s.src_term = 1
         THEN [ret   |-> [kind |-> "array",
                          val  |-> [k \in DOMAIN deltaq |-> deltaq[k] + srcinc[k]]],
               calls |-> <<"src">>]
         ELSE [ret |-> [kind |-> "array", val |-> deltaq], calls |-> <<>>]

\* ------------------------------------------------ one stage evaluation
NoLocals ==
    [q |-> <<>>, dtdx |-> <<>>, bound |-> FALSE, ql |-> <<>>, qr |-> <<>>,
     s |-> <<>>, amdq |-> <<>>, apdq |-> <<>>, amdq2 |-> <<>>, apdq2 |-> <<>>,
     deltaq |-> <<>>, idx |-> <<>>, written |-> {}]

Init ==
    /\ grid \in [q    : UNION {[0..(np - 1) -> QVals] : np \in PhysSizes},
                 t    : {0},
                 mbc  : MbcVals,
                 bc   : BcKinds,
                 capa : BOOLEAN,
                 d    : {<<2>>}]
    /\ solver \in [dt          : {4},
                   cfl_max     : CflMaxVals,
                   src_term    : {0, 1},
                   lim_type    : LimTypes,
                   char_decomp : CharDecomps,
                   mwaves      : WaveCounts]
    /\ (solver.lim_type # 2 => solver.char_decomp = 0)
    /\ cfl \in StaleCflVals
    /\ pc = "dq"
    /\ loc = NoLocals
    /\ ret = [kind |-> None]
    /\ err = ""
    /\ trace = <<>>

\* dq up to its call of dqhyp1 (the ghost-filled field), and dqhyp1 up to
\* the reconstruction: local_n, dtdx.
Begin ==
    /\ pc = "dq"
    /\ LET q == qbc(grid)
       IN loc' = [NoLocals EXCEPT
                    !.q = q,
                    !.dtdx = Dtdx(ALen(q), grid.capa, solver.dt, grid.d[1])]
    /\ trace' = Append(trace, "qbc")
    /\ pc' = "recon"
    /\ UNCHANGED <<grid, solver, cfl, ret, err>>

\* The dispatch on lim_type and char_decomp: the edge states ql, qr when a
\* branch binds them, and the collaborators the branch invokes.
ReconDispatch(q, lim_type, char_decomp, mw) ==
    IF lim_type = 0 THEN [bound |-> FALSE, ql |-> <<>>, qr |-> <<>>, calls |-> <<>>]
    ELSE IF lim_type = 1 THEN [bound |-> FALSE, ql |-> <<>>, qr |-> <<>>, calls |-> <<>>]
    ELSE IF lim_type = 2 THEN
        IF char_decomp = 0
        THEN [bound |-> TRUE, ql |-> weno5(q).ql, qr |-> weno5(q).qr,
              calls |-> <<"weno5">>]
        ELSE IF char_decomp = 1
        THEN LET r == rp(Slice(q, 0, -1), Slice(q, 1, ALen(q)), mw)
                 w == weno5_wave(q, r.wave)
             IN [bound |-> TRUE, ql |-> w.ql, qr |-> w.qr,
                 calls |-> <<"rp", "weno5_wave">>]
        ELSE IF char_decomp = 2
        THEN [bound |-> TRUE, ql |-> q, qr |-> q, calls |-> <<>>]
        ELSE [bound |-> FALSE, ql |-> <<>>, qr |-> <<>>, calls |-> <<>>]
    ELSE [bound |-> FALSE, ql |-> <<>>, qr |-> <<>>, calls |-> <<>>]

Reconstruct ==
    /\ pc = "recon"
    /\ LET r == ReconDispatch(loc.q, solver.lim_type, solver.char_decomp, solver.mwaves)
       IN /\ loc' = [loc EXCEPT !.bound = r.bound, !.ql = r.ql, !.qr = r.qr]
          /\ trace' = trace \o r.calls
    /\ pc' = "riemann"
    /\ UNCHANGED <<grid, solver, cfl, ret, err>>

\* q_l = qr[:-1]; q_r = ql[1:]; the flux-differencing Riemann solve.  Reading
\* ql or qr when no branch of the dispatch bound them raises
\* UnboundLocalError.
RiemannFlux ==
    /\ pc = "riemann"
    /\ IF ~loc.bound
       THEN /\ err' = "UnboundLocalError"
            /\ pc' = "raised"
            /\ UNCHANGED <<loc, trace>>
       ELSE /\ LET r == rp(Slice(loc.qr, 0, -1), Slice(loc.ql, 1, ALen(loc.ql)),
                           solver.mwaves)
               IN loc' = [loc EXCEPT !.s = r.s, !.amdq = r.amdq, !.apdq = r.apdq]
            /\ trace' = Append(trace, "rp")
            /\ pc' = "cfl"
            /\ err' = err
    /\ UNCHANGED <<grid, solver, cfl, ret>>

\* LL, UL; self.cfl = 0.0; the maxima over the wave families.
CflStep ==
    /\ pc = "cfl"
    /\ LET n == ALen(loc.q)
           r == CflMonitor(loc.dtdx, loc.s, solver.mwaves, LL(grid.mbc), UL(n, grid.mbc))
       IN /\ cfl' = r.cfl
          /\ err' = r.err
          /\ pc' = IF r.err = "" THEN "fluct" ELSE "raised"
    /\ UNCHANGED <<grid, solver, loc, ret, trace>>

\* wave,s,amdq2,apdq2 = self.rp(ql,qr,aux,aux,aux_global)
TotalFluct ==
    /\ pc = "fluct"
    /\ LET r == rp(loc.ql, loc.qr, solver.mwaves)
       IN loc' = [loc EXCEPT !.amdq2 = r.amdq, !.apdq2 = r.apdq]
    /\ trace' = Append(trace, "rp")
    /\ pc' = "incr"
    /\ UNCHANGED <<grid, solver, cfl, ret, err>>

\* The increment and the return of dqhyp1 to dq.
Increment ==
    /\ pc = "incr"
    /\ LET n == ALen(loc.q)
           r == ComputeDq(loc, LL(grid.mbc), UL(n, grid.mbc))
       IN /\ err' = r.err
          /\ loc' = [loc EXCEPT !.deltaq = r.val, !.idx = r.idx, !.written = r.written]
          /\ pc' = IF r.err = "" THEN "check" ELSE "raised"
    /\ UNCHANGED <<grid, solver, cfl, ret, trace>>

\* dq after dqhyp1 returned: the CFL test, the source term, the return.
DqCheck ==
    /\ pc = "check"
    /\ LET r == DqReturn(loc.deltaq, cfl, solver, src(ALen(loc.deltaq), solver.dt))
       IN /\ ret' = r.ret
          /\ trace' = trace \o r.calls
    /\ pc' = "done"
    /\ UNCHANGED <<grid, solver, cfl, loc, err>>

Next ==
    \/ Begin
    \/ Reconstruct
    \/ RiemannFlux
    \/ CflStep
    \/ TotalFluct
    \/ Increment
    \/ DqCheck

Spec == Init /\ [][Next]_vars

\* ------------------------------------------------------------------- step
\* In SpecStep the values are in units of 1/12, so that the convex
\* combinations 3/4, 1/4, 1/3, 2/3 of the inputs below are exact.
\* Numbers of cells of grid.q
CellCounts == {1, 2}
QStepVals == {0, 12}
IncVals == {-12, 12}
IntegratorKinds == {"Euler", "SSP33", "RK4"}
StepCflMaxVals == {4}
\* The CFL numbers a stage evaluation inside step may compute.
StepCflVals == {0, 4}

\* The value numpy adds for an increment: the array, or 0 for False.
AsIncrement(r, n) ==
    IF r.kind = "array" THEN r.val ELSE [k \in 0..(n - 1) |-> 0]

\* grid.q + deltaq
AddInc(q, r) == [k \in DOMAIN q |-> q[k] + AsIncrement(r, ALen(q))[k]]

\* 0.75*qold + 0.25*(grid.q + deltaq)
Stage2(qold, q, r) ==
    [k \in DOMAIN q |-> (3 * qold[k] + AddInc(q, r)[k]) \div 4]

\* Stage3 with the weights 2/3 and 1/3 exchanged.
Stage3_Swapped(qold, q, r) ==
    [k \in DOMAIN q |-> (2 * qold[k] + AddInc(q, r)[k]) \div 3]

\* 1./3.*qold + 2./3.*(grid.q + deltaq)
Stage3(qold, q, r) ==
    [k \in DOMAIN q |-> (qold[k] + 2 * AddInc(q, r)[k]) \div 3]

InitStep ==
    /\ grid \in [q  : UNION {[0..(n - 1) -> QStepVals] : n \in CellCounts},
                 t  : {0},
                 rk : {[q |-> <<>>, t |-> 0]}]
    /\ solver \in [time_integrator : IntegratorKinds,
                   dt              : {12},
                   cfl_max         : StepCflMaxVals,
                   src_term        : {0, 1}]
    /\ cfl \in StaleCflVals
    /\ pc = "step"
    /\ loc = [entry |-> grid.q, qold |-> <<>>, told |-> 0]
    /\ ret = [kind |-> None]
    /\ err = ""
    /\ trace = <<>>

\* self.dq(...) called from step at the given line, on the state q and the
\* time t the call site names (grid.q and grid.t, grid.rk_stages[0] and its
\* t, or the solution's current q and t).  The evaluator is taken to accept
\* each call; the homogeneous increment hyp and the CFL number c come from
\* dqhyp1.
CallDq(line, q, t, hyp, c) ==
    [line |-> line, q |-> q, t |-> t,
     ret |-> DqReturn(hyp, c, solver, src(ALen(q), solver.dt)).ret]

\* Euler: deltaq = self.dq(grid, grid.q, grid.t); grid.q += deltaq
StepEuler ==
    /\ pc = "step"
    /\ solver.time_integrator = "Euler"
    /\ \E hyp \in [DOMAIN grid.q -> IncVals], c \in StepCflVals :
         LET call == CallDq(97, grid.q, grid.t, hyp, c)
         IN /\ trace' = Append(trace, call)
            /\ cfl' = c
            /\ grid' = [grid EXCEPT !.q = AddInc(grid.q, call.ret)]
    /\ pc' = "done"
    /\ UNCHANGED <<solver, loc, ret, err>>

\* SSP33, lines 100-102: the first evaluation fills grid.rk_stages[0].
Step100 ==
    /\ pc = "step"
    /\ solver.time_integrator = "SSP33"
    /\ \E hyp \in [DOMAIN grid.q -> IncVals], c \in StepCflVals :
         LET call == CallDq(100, grid.q, grid.t, hyp, c)
         IN /\ trace' = Append(trace, call)
            /\ cfl' = c
            /\ grid' = [grid EXCEPT !.rk = [q |-> AddInc(grid.q, call.ret),
                                            t |-> grid.t + solver.dt]]
    /\ pc' = "L103"
    /\ UNCHANGED <<solver, loc, ret, err>>

\* SSP33, line 103: an evaluation on grid.rk_stages[0]; its result is
\* overwritten at line 108 before any use.
Step103 ==
    /\ pc = "L103"
    /\ \E hyp \in [DOMAIN grid.q -> IncVals], c \in StepCflVals :
         LET call == CallDq(103, grid.rk.q, grid.rk.t, hyp, c)
         IN /\ trace' = Append(trace, call)
            /\ cfl' = c
    /\ pc' = "L106"
    /\ UNCHANGED <<grid, solver, loc, ret, err>>

\* SSP33, lines 106-110: qold, told; grid.q += dq; t = told + dt
Step108 ==
    /\ pc = "L106"
    /\ \E hyp \in [DOMAIN grid.q -> IncVals], c \in StepCflVals :
         LET call == CallDq(108, grid.q, grid.t, hyp, c)
         IN /\ trace' = Append(trace, call)
            /\ cfl' = c
            /\ grid' = [grid EXCEPT !.q = AddInc(grid.q, call.ret),
                                    !.t = grid.t + solver.dt]
    /\ loc' = [loc EXCEPT !.qold = grid.q, !.told = grid.t]
    /\ pc' = "L111"
    /\ UNCHANGED <<solver, ret, err>>

\* SSP33, lines 111-113
Step111 ==
    /\ pc = "L111"
    /\ \E hyp \in [DOMAIN grid.q -> IncVals], c \in StepCflVals :
         LET call == CallDq(111, grid.q, grid.t, hyp, c)
         IN /\ trace' = Append(trace, call)
            /\ cfl' = c
            /\ grid' = [grid EXCEPT !.q = Stage2(loc.qold, grid.q, call.ret),
                                    !.t = loc.told + solver.dt \div 2]
    /\ pc' = "L114"
    /\ UNCHANGED <<solver, loc, ret, err>>

\* SSP33, lines 114-115, and the return of step (None)
Step114 ==
    /\ pc = "L114"
    /\ \E hyp \in [DOMAIN grid.q -> IncVals], c \in StepCflVals :
         LET call == CallDq(114, grid.q, grid.t, hyp, c)
         IN /\ trace' = Append(trace, call)
            /\ cfl' = c
            /\ grid' = [grid EXCEPT !.q = Stage3(loc.qold, grid.q, call.ret)]
    /\ pc' = "done"
    /\ UNCHANGED <<solver, loc, ret, err>>

\* else: raise Exception('Unrecognized time integrator')
StepUnrecognized ==
    /\ pc = "step"
    /\ solver.time_integrator \notin {"Euler", "SSP33"}
    /\ err' = "Exception"
    /\ pc' = "raised"
    /\ UNCHANGED <<grid, solver, cfl, loc, ret, trace>>

NextStep ==
    \/ StepEuler
    \/ Step100
    \/ Step103
    \/ Step108
    \/ Step111
    \/ Step114
    \/ StepUnrecognized

SpecStep == InitStep /\ [][NextStep]_vars

\* Every division of step is exact on the model's inputs: the increments are
\* multiples of 12, grid.q is a multiple of 12 before line 111 divides by 4
\* and a multiple of 3 before line 115 divides by 3.
StepExact ==
    /\ \A i \in 1..Len(trace) : \A k \in DOMAIN grid.q :
           AsIncrement(trace[i].ret, ALen(grid.q))[k] % 12 = 0
    /\ pc \in {"step", "L103", "L106", "L111"} =>
           \A k \in DOMAIN grid.q : grid.q[k] % 12 = 0
    /\ pc \in {"L111", "L114"} => \A k \in DOMAIN grid.q : loc.qold[k] % 12 = 0
    /\ pc = "L114" => \A k \in DOMAIN grid.q : grid.q[k] % 3 = 0

\* ================================================================ claims
\* ---- under SpecStep ----
AnyRejected == \E i \in 1..Len(trace) : trace[i].ret.kind = Reject

AllReturn(c) ==
    \A i \in 1..Len(trace) : trace[i].ret.kind = "array" /\ trace[i].ret.val = c

\* C1: whenever a stage evaluation returns the rejection sentinel, step
\* invokes no further stage evaluation (the rejected call is the last one)
\* and step itself returns the rejection to its caller.
C1_AbortOnRejection ==
    /\ \A i \in 1..Len(trace) : trace[i].ret.kind = Reject => i = Len(trace)
    /\ (pc = "done" /\ AnyRejected) => ret.kind = Reject

\* C2: if any stage evaluation of a call of step was rejected, grid.q at the
\* return of step equals grid.q at entry.
C2_RejectedStepKeepsQ ==
    (pc = "done" /\ AnyRejected) => grid.q = loc.entry

\* C2 for the single-stage integrator alone.
RejectedEulerStepKeepsQ ==
    (pc = "done" /\ solver.time_integrator = "Euler" /\ AnyRejected) =>
        grid.q = loc.entry

\* C4: SSP33 without rejection performs exactly three stage evaluations, on
\* (q, t), (q1, t+dt), (q2, t+dt/2) with q1 = q + dq(q, t) and
\* q2 = 3/4 q + 1/4 (q1 + dq(q1, t+dt)), and commits
\* 1/3 q + 2/3 (q2 + dq(q2, t+dt/2)).
C4_ThreeStagesInOrder ==
    (pc = "done" /\ solver.time_integrator = "SSP33" /\ ~AnyRejected) =>
        /\ Len(trace) = 3
        /\ trace[1].q = loc.entry /\ trace[1].t = 0
        /\ trace[2].q = AddInc(loc.entry, trace[1].ret)
        /\ trace[2].t = solver.dt
        /\ trace[3].q = Stage2(loc.entry, trace[2].q, trace[2].ret)
        /\ trace[3].t = solver.dt \div 2
        /\ grid.q = Stage3(loc.entry, trace[3].q, trace[3].ret)

\* C5: if every stage evaluation of an SSP33 step returns the same increment
\* c (and none rejects), the step ends with grid.q = q0 + c in every cell.
C5_ConstantIncrementExact ==
    (pc = "done" /\ solver.time_integrator = "SSP33" /\ Len(trace) > 0
     /\ trace[1].ret.kind = "array" /\ AllReturn(trace[1].ret.val)) =>
        \A k \in DOMAIN grid.q : grid.q[k] = loc.entry[k] + trace[1].ret.val[k]

C5_Witness ==
    /\ pc = "done" /\ solver.time_integrator = "SSP33"
    /\ Len(trace) > 0 /\ trace[1].ret.kind = "array"
    /\ AllReturn(trace[1].ret.val)
    /\ ALen(grid.q) = 2
    /\ trace[1].ret.val[0] = 12 /\ trace[1].ret.val[1] = -12
    /\ grid.q[0] = loc.entry[0] + 12

\* ---- under Spec ----
local_n == ALen(loc.q)
HypReturned == pc \in {"check", "done"}
SrcInvoked == \E i \in 1..Len(trace) : trace[i] = "src"
Recognized(s) == s.lim_type = 2 /\ s.char_decomp \in {0, 1, 2}

\* C3: dq returns the rejection sentinel exactly when the CFL number of the
\* stage is >= cfl_max; then the source integrator is not invoked; otherwise
\* it returns the homogeneous increment, plus the source contribution if and
\* only if src_term is set.
C3_RejectIffCflAtLeastMax ==
    pc = "done" =>
        /\ ret.kind = Reject <=> cfl >= solver.cfl_max
        /\ ret.kind = Reject => ~SrcInvoked
        /\ ret.kind # Reject =>
             /\ ret.kind = "array"
             /\ SrcInvoked <=> solver.src_term = 1
             /\ ret.val = [k \in DOMAIN loc.deltaq |->
                             loc.deltaq[k]
                             + IF solver.src_term = 1
                               THEN src(ALen(loc.deltaq), solver.dt)[k] ELSE 0]

C3_Witness ==
    pc = "done" /\ cfl = solver.cfl_max /\ ret.kind = Reject /\ solver.src_term = 1

\* C6: for every ghost width mbc and every local_n > 2*(mbc+1), dqhyp1
\* returns an array of length local_n - 2*mbc holding the cells
\* mbc .. local_n-mbc-1 (stated for the recognised reconstruction modes).
C6_ReturnedRange ==
    (pc \in {"check", "done", "raised"} /\ Recognized(solver)
     /\ local_n > 2 * (grid.mbc + 1)) =>
        /\ pc # "raised"
        /\ ALen(loc.deltaq) = local_n - 2 * grid.mbc
        /\ \A k \in DOMAIN loc.idx : loc.idx[k] = grid.mbc + k

\* C7: a stage configured with lim_type 0 or 1, or with an unrecognised
\* lim_type / char_decomp, is rejected by the mode dispatch itself with an
\* unimplemented / configuration error: once the dispatch has run the stage
\* has ended with that error, the Riemann solve was not reached, self.cfl
\* was not overwritten and no increment is returned.
C7_StubModesRejected ==
    (~Recognized(solver) /\ pc \notin {"dq", "recon"}) =>
        /\ pc = "raised"
        /\ err \in {"NotImplementedError", "ConfigurationError"}
        /\ cfl \in StaleCflVals
        /\ \A i \in 1..Len(trace) : trace[i] # "rp"

\* The maximum, over every wave family the Riemann evaluator returned and
\* both directions, of dtdx[i]*s[i-1] and -dtdx[i-1]*s[i-1], i in [LL, UL).
CflOverAllFamilies ==
    LET ll == LL(grid.mbc)
        ul == UL(local_n, grid.mbc)
    IN MaxOf({loc.dtdx[i] * loc.s[i - 1][mw] :
                 i \in ll..(ul - 1), mw \in 1..solver.mwaves}
             \cup {(0 - loc.dtdx[i - 1]) * loc.s[i - 1][mw] :
                 i \in ll..(ul - 1), mw \in 1..solver.mwaves})

\* C8: after every completed homogeneous increment computation self.cfl is
\* that maximum, whatever self.cfl was before the stage.
C8_CflIsMaxOverAllFamilies ==
    HypReturned => cfl = CflOverAllFamilies

\* C8 restricted to Riemann evaluators that return meqn wave families.
CflIsMaxWhenWavesAreMeqn ==
    (HypReturned /\ solver.mwaves = meqn) => cfl = CflOverAllFamilies

\* C9: on a periodic domain with uniform dt/dx and the conservative Riemann
\* evaluator, the increments dqhyp1 returns sum to zero over the physical
\* cells.
C9_Conservation ==
    (HypReturned /\ grid.bc = "periodic" /\ ~grid.capa) =>
        SumTo(loc.deltaq, ALen(loc.deltaq)) = 0

C9_Witness ==
    /\ HypReturned /\ grid.bc = "periodic" /\ ~grid.capa
    /\ solver.char_decomp = 0
    /\ \E k \in DOMAIN loc.deltaq : loc.deltaq[k] # 0
    /\ \E i \in DOMAIN loc.q : loc.ql[i] # loc.qr[i]

\* The slices of the CFL maxima (lines 248-249) and of the increment (lines
\* 258-259): the length of the array sliced and the bounds as written.
CflSlices(l, ll, ul) ==
    {[n |-> ALen(l.dtdx), lo |-> ll, hi |-> ul],
     [n |-> ALen(l.s), lo |-> ll - 1, hi |-> ul - 1],
     [n |-> ALen(l.dtdx), lo |-> ll - 1, hi |-> ul - 1]}

IncrementSlices(l, ll, ul) ==
    {[n |-> ALen(l.q), lo |-> ll, hi |-> ul],
     [n |-> ALen(l.dtdx), lo |-> ll, hi |-> ul],
     [n |-> ALen(l.amdq), lo |-> ll, hi |-> ul],
     [n |-> ALen(l.apdq), lo |-> ll - 1, hi |-> ul - 1],
     [n |-> ALen(l.apdq2), lo |-> ll, hi |-> ul],
     [n |-> ALen(l.amdq2), lo |-> ll, hi |-> ul]}

SlicesInBounds(S) ==
    /\ \A x \in S : 0 <= x.lo /\ x.lo <= x.hi /\ x.hi <= x.n
    /\ \A x, y \in S : x.hi - x.lo = y.hi - y.lo

\* C10: for every mbc >= 1 and local_n > 2*(mbc+1), every slice of the CFL
\* maxima and of the increment has non-negative bounds inside its array, and
\* the operands of one expression have the same length.
C10_SlicesInBounds ==
    (grid.mbc >= 1 /\ local_n > 2 * (grid.mbc + 1)) =>
        /\ pc = "cfl" =>
             SlicesInBounds(CflSlices(loc, LL(grid.mbc), UL(local_n, grid.mbc)))
        /\ pc = "incr" =>
             SlicesInBounds(IncrementSlices(loc, LL(grid.mbc), UL(local_n, grid.mbc)))

\* C10 for mbc >= 2.
SlicesInBoundsFromTwoGhosts ==
    (grid.mbc >= 2 /\ local_n > 2 * (grid.mbc + 1)) =>
        /\ pc = "cfl" =>
             SlicesInBounds(CflSlices(loc, LL(grid.mbc), UL(local_n, grid.mbc)))
        /\ pc = "incr" =>
             SlicesInBounds(IncrementSlices(loc, LL(grid.mbc), UL(local_n, grid.mbc)))

\* The Riemann evaluator of the model is conservative.
RiemannIsConservative ==
    \A a, b \in (-3)..3, mw \in WaveCounts :
        Rp1(a, b, mw).amdq + Rp1(a, b, mw).apdq = Flux(b) - Flux(a)

\* The returned cells were all written by the assignment to dq[LL:UL].
ReturnedCellsWritten ==
    HypReturned => \A k \in DOMAIN loc.idx : loc.idx[k] \in loc.written

====
